---------------------------- MODULE Spec2Model ----------------------------
(***************************************************************************)
(* repodump: file selection (FileFilter), collection (collect_files),      *)
(* tree rendering (generate_directory_tree), content rendering             *)
(* (generate_file_contents) and the main pipeline.                         *)
(*                                                                         *)
(* A string is a sequence of one-character strings; a path is a string     *)
(* with "/" as its separator.                                              *)
(***************************************************************************)
EXTENDS Naturals, Sequences, FiniteSets, TLC

VARIABLES
    pc,              \* position of the run / of the function under study
    cli,             \* parsed command line (struct Cli)
    fs,              \* the file system: the regular files below the root
    target_dir,      \* main: let target_dir
    content_files,   \* main: let content_files
    tree_files,      \* main: let tree_files
    output_content,  \* main: let mut output_content
    outfile,         \* the output file on disk ("absent" until written)
    err,             \* the error main returned, "none" while there is none
    fsLog,           \* the file system accesses made so far, in order
    readFailed,      \* the files whose fs::read_to_string failed
    policy,          \* a FileFilter under study
    probe,           \* the path handed to should_include
    verdict,         \* what should_include returned
    tree_root,       \* generate_directory_tree: root_path
    tree_input,      \* generate_directory_tree: files
    tree_text        \* generate_directory_tree: the returned text

vars == <<pc, cli, fs, target_dir, content_files, tree_files, output_content,
          outfile, err, fsLog, readFailed, policy, probe, verdict,
          tree_root, tree_input, tree_text>>

mainVars == <<cli, fs, target_dir, content_files, tree_files, output_content,
              outfile, err, fsLog, readFailed>>
filterVars == <<policy, probe, verdict>>
treeVars == <<tree_root, tree_input, tree_text>>

\* ------------------------------------------------------------------ bounds

MaxPatterns == 1
MaxFiles == 2
MaxTreeFiles == 3

\* ----------------------------------------------------------------- strings

Lower == <<"a","b","c","d","e","f","g","h","i","j","k","l","m",
           "n","o","p","q","r","s","t","u","v","w","x","y","z">>

Upper == <<"A","B","C","D","E","F","G","H","I","J","K","L","M",
           "N","O","P","Q","R","S","T","U","V","W","X","Y","Z">>

IndexIn(seq, c) == CHOOSE i \in 1..Len(seq) : seq[i] = c

\* The byte of a character (ASCII), which is what String and OsStr compare.
Byte(c) ==
    CASE c = "*" -> 42
      [] c = "-" -> 45
      [] c = "." -> 46
      [] c = "/" -> 47
      [] c = "?" -> 63
      [] c = "[" -> 91
      [] c = "\\" -> 92
      [] c = "]" -> 93
      [] c = "_" -> 95
      [] \E i \in 1..Len(Upper) : Upper[i] = c -> 64 + IndexIn(Upper, c)
      [] OTHER -> 96 + IndexIn(Lower, c)

\* -1, 0 or 1 as a is below, equal to or above b: byte-wise lexicographic
\* order, a proper prefix first (Ord for str, String and OsStr).
RECURSIVE StrCmpFrom(_, _, _)
StrCmpFrom(a, b, i) ==
    IF i > Len(a) /\ i > Len(b) THEN 0
    ELSE IF i > Len(a) THEN 0 - 1
    ELSE IF i > Len(b) THEN 1
    ELSE IF Byte(a[i]) < Byte(b[i]) THEN 0 - 1
    ELSE IF Byte(a[i]) > Byte(b[i]) THEN 1
    ELSE StrCmpFrom(a, b, i + 1)

StrCmp(a, b) == StrCmpFrom(a, b, 1)

StrLess(a, b) == StrCmp(a, b) < 0

\* str::split('/'): the segments between separators, empty ones included;
\* a string without separator is its own single segment.
RECURSIVE SplitFrom(_, _, _)
SplitFrom(s, i, cur) ==
    IF i > Len(s) THEN <<cur>>
    ELSE IF s[i] = "/" THEN <<cur>> \o SplitFrom(s, i + 1, <<>>)
    ELSE SplitFrom(s, i + 1, Append(cur, s[i]))

Split(s) == SplitFrom(s, 1, <<>>)

\* str::replace('\\', "/")
ReplaceBackslash(s) == [i \in 1..Len(s) |-> IF s[i] = "\\" THEN "/" ELSE s[i]]

Last(seq) == seq[Len(seq)]

\* -------------------------------------------------------------------- globs
\* globset::Glob::new with the default options (no literal_separator, case
\* sensitive), for patterns made of literal characters, "?", "*" and "**".

IsSep(c) == c = "/"

Tk(kind, ch) == [t |-> kind, c |-> ch]

Star2 == <<Tk("ZeroOrMore", ""), Tk("ZeroOrMore", "")>>

ButLast(seq) == SubSeq(seq, 1, Len(seq) - 1)

\* The tokens of a pattern. "**" is recursive only as a whole segment:
\* "**/" at the start, "/**" at the end, "/**/" inside; elsewhere it is "*".
RECURSIVE Tokens(_, _, _)
Tokens(p, i, toks) ==
    IF i > Len(p) THEN toks
    ELSE IF p[i] = "?" THEN Tokens(p, i + 1, Append(toks, Tk("Any", "")))
    ELSE IF p[i] # "*" THEN Tokens(p, i + 1, Append(toks, Tk("Literal", p[i])))
    ELSE IF ~(i + 1 <= Len(p) /\ p[i + 1] = "*")
        THEN Tokens(p, i + 1, Append(toks, Tk("ZeroOrMore", "")))
    ELSE LET hasPeek == i + 2 <= Len(p)
             peekSep == hasPeek /\ IsSep(p[i + 2])
         IN  IF toks = <<>>
             THEN IF hasPeek /\ ~peekSep
                  THEN Tokens(p, i + 2, Star2)
                  ELSE Tokens(p, i + 3, <<Tk("RecursivePrefix", "")>>)
             ELSE IF ~IsSep(p[i - 1]) \/ (hasPeek /\ ~peekSep)
                  THEN Tokens(p, i + 2, toks \o Star2)
             ELSE LET popped == Last(toks)
                      rest == ButLast(toks)
                      kind == IF popped.t = "RecursivePrefix" THEN "RecursivePrefix"
                              ELSE IF popped.t = "RecursiveSuffix" THEN "RecursiveSuffix"
                              ELSE IF ~hasPeek THEN "RecursiveSuffix"
                              ELSE "RecursiveZeroOrMore"
                  IN  Tokens(p, IF hasPeek THEN i + 3 ELSE i + 2,
                             Append(rest, Tk(kind, "")))

\* Whether tokens toks[i..] match s[j..] to its end (the anchored regex the
\* tokens compile to: "*" is ".*", a recursive prefix "(?:/?|.*/)", a
\* recursive suffix "/.*", a recursive segment "(?:/|/.*/)").
RECURSIVE TokMatch(_, _, _, _)
TokMatch(toks, i, s, j) ==
    IF i > Len(toks) THEN j > Len(s)
    ELSE LET k == toks[i].t
             n == Len(s)
         IN  CASE k = "Literal" ->
                    j <= n /\ s[j] = toks[i].c /\ TokMatch(toks, i + 1, s, j + 1)
               [] k = "Any" ->
                    j <= n /\ TokMatch(toks, i + 1, s, j + 1)
               [] k = "ZeroOrMore" ->
                    \E m \in j..(n + 1) : TokMatch(toks, i + 1, s, m)
               [] k = "RecursivePrefix" ->
                    \/ TokMatch(toks, i + 1, s, j)
                    \/ \E m \in j..n : s[m] = "/" /\ TokMatch(toks, i + 1, s, m + 1)
               [] k = "RecursiveSuffix" ->
                    /\ j <= n /\ s[j] = "/"
                    /\ \E m \in (j + 1)..(n + 1) : TokMatch(toks, i + 1, s, m)
               [] k = "RecursiveZeroOrMore" ->
                    /\ j <= n /\ s[j] = "/"
                    /\ \/ TokMatch(toks, i + 1, s, j + 1)
                       \/ \E m \in (j + 1)..n :
                              s[m] = "/" /\ TokMatch(toks, i + 1, s, m + 1)

\* Glob::new fails on an unclosed character class.
RECURSIVE ClassesClosed(_, _, _)
ClassesClosed(p, i, open) ==
    IF i > Len(p) THEN ~open
    ELSE IF ~open /\ p[i] = "[" THEN ClassesClosed(p, i + 1, TRUE)
    ELSE IF open /\ p[i] = "]" THEN ClassesClosed(p, i + 1, FALSE)
    ELSE ClassesClosed(p, i + 1, open)

GlobValid(p) == ClassesClosed(p, 1, FALSE)

\* Glob::is_match on a whole path; a lone "**" matches everything.
GlobMatch(p, path) ==
    LET toks == Tokens(p, 1, <<>>)
    IN  IF toks = <<Tk("RecursivePrefix", "")>> THEN TRUE
        ELSE TokMatch(toks, 1, path, 1)

\* GlobSet::is_match: some pattern of the set matches.
SetMatch(globs, path) == \E i \in 1..Len(globs) : GlobMatch(globs[i], path)

\* build_globset: the compiled set, or the first invalid pattern.
build_globset(patterns) ==
    IF \A i \in 1..Len(patterns) : GlobValid(patterns[i])
    THEN [ok |-> TRUE, globs |-> patterns, bad |-> <<>>]
    ELSE [ok |-> FALSE, globs |-> <<>>,
          bad |-> patterns[CHOOSE i \in 1..Len(patterns) :
                      /\ ~GlobValid(patterns[i])
                      /\ \A k \in 1..(i - 1) : GlobValid(patterns[k])]]

\* --------------------------------------------------------------- FileFilter

\* A planted fault: the include patterns are taken as they are, unchecked.
FileFilter_new_UncheckedInclude(filter, exclude, include) ==
    LET f == build_globset(filter)
        e == build_globset(exclude)
    IN  IF ~f.ok THEN [ok |-> FALSE, bad |-> f.bad]
        ELSE IF ~e.ok THEN [ok |-> FALSE, bad |-> e.bad]
        ELSE [ok |-> TRUE, bad |-> <<>>,
              filter_globs |-> f.globs,
              exclude_globs |-> e.globs,
              include_globs |-> include]

\* FileFilter::new: the three sets are built in the order filter, exclude,
\* include; the first failure is the result.
FileFilter_new(filter, exclude, include) ==
    LET f == build_globset(filter)
        e == build_globset(exclude)
        n == build_globset(include)
    IN  IF ~f.ok THEN [ok |-> FALSE, bad |-> f.bad]
        ELSE IF ~e.ok THEN [ok |-> FALSE, bad |-> e.bad]
        ELSE IF ~n.ok THEN [ok |-> FALSE, bad |-> n.bad]
        ELSE [ok |-> TRUE, bad |-> <<>>,
              filter_globs |-> f.globs,
              exclude_globs |-> e.globs,
              include_globs |-> n.globs]

\* A planted fault: the include set is consulted before the filter stage.
should_include_IncludeFirst(self, path) ==
    IF SetMatch(self.include_globs, path) THEN TRUE
    ELSE IF Len(self.filter_globs) > 0 /\ ~SetMatch(self.filter_globs, path) THEN FALSE
    ELSE ~SetMatch(self.exclude_globs, path)

\* A planted fault: an excluded path is dropped without asking the include set.
should_include_NoOverride(self, path) ==
    IF Len(self.filter_globs) > 0 /\ ~SetMatch(self.filter_globs, path)
    THEN FALSE
    ELSE ~SetMatch(self.exclude_globs, path)

\* FileFilter::should_include
should_include(self, path) ==
    IF Len(self.filter_globs) > 0 /\ ~SetMatch(self.filter_globs, path)
    THEN FALSE
    ELSE IF SetMatch(self.exclude_globs, path)
         THEN SetMatch(self.include_globs, path)
         ELSE TRUE

\* ------------------------------------------------- patterns and paths used

G_rs == <<"*",".","r","s">>

G_toml == <<"*",".","t","o","m","l">>

G_target == <<"t","a","r","g","e","t","/","*">>

G_src == <<"s","r","c","/","*">>

G_important == <<"t","a","r","g","e","t","/","i","m","p","o","r","t","a","n","t",".","r","s">>

G_main == <<"s","r","c","/","m","a","i","n",".","r","s">>

G_git == <<".","g","i","t">>

G_gitAll == <<".","g","i","t","/","*","*">>

G_gitConfig == <<".","g","i","t","/","c","o","n","f","i","g">>

G_unclosed == <<"[">>

G_temp == <<"t","e","m","p">>

G_log == <<"*",".","l","o","g">>

P_important == <<"t","a","r","g","e","t","/","i","m","p","o","r","t","a","n","t",".","r","s">>

P_main == <<"s","r","c","/","m","a","i","n",".","r","s">>

P_libjs == <<"s","r","c","/","l","i","b",".","j","s">>

P_readme == <<"R","E","A","D","M","E",".","m","d">>

P_app == <<"t","a","r","g","e","t","/","d","e","b","u","g","/","a","p","p">>

P_cargo == <<"C","a","r","g","o",".","t","o","m","l">>

P_gitConfig == <<".","g","i","t","/","c","o","n","f","i","g">>

P_dotgit == <<".","g","i","t">>

P_gitignore == <<".","g","i","t","i","g","n","o","r","e">>

P_subGit == <<"s","u","b","/",".","g","i","t","/","c","o","n","f","i","g">>

P_srcrs == <<"s","r","c",".","r","s">>

P_temp == <<"t","e","m","p">>

\* ------------------------------------------------------------ idle values
\* Each specification below drives one group of variables and holds the
\* others at these values.

NoError == [kind |-> "none", detail |-> <<>>]

NoOutfile == [written |-> FALSE, text |-> <<>>]

MainIdle ==
    /\ cli = "idle" /\ fs = "idle" /\ target_dir = <<>>
    /\ content_files = <<>> /\ tree_files = <<>> /\ output_content = <<>>
    /\ outfile = NoOutfile /\ err = NoError /\ fsLog = <<>> /\ readFailed = {}

FilterIdle == policy = "idle" /\ probe = <<>> /\ verdict = "none"

TreeIdle == tree_root = "idle" /\ tree_input = <<>> /\ tree_text = <<>>

SeqsUpTo(S, n) == UNION {[1..k -> S] : k \in 0..n}

\* ===================================================== FileFilter on its own
\* should_include applied to every policy built from up to MaxPatterns
\* patterns per set and every probe path.

PatternUniverse == {G_rs, G_toml, G_target, G_src, G_important, G_main}

ProbePaths == {P_important, P_main, P_libjs, P_readme, P_app, P_cargo}

FilterInit ==
    /\ pc = "filter_ready"
    /\ \E f \in SeqsUpTo(PatternUniverse, MaxPatterns),
          e \in SeqsUpTo(PatternUniverse, MaxPatterns),
          n \in SeqsUpTo(PatternUniverse, MaxPatterns) :
            policy = FileFilter_new(f, e, n)
    /\ probe \in ProbePaths
    /\ verdict = "none"
    /\ MainIdle /\ TreeIdle

ShouldInclude ==
    /\ pc = "filter_ready"
    /\ verdict' = should_include(policy, probe)
    /\ pc' = "filter_done"
    /\ UNCHANGED <<policy, probe>>
    /\ UNCHANGED mainVars /\ UNCHANGED treeVars

FilterNext == ShouldInclude

SpecFilter == FilterInit /\ [][FilterNext]_vars

PassesFilter == Len(policy.filter_globs) = 0 \/ SetMatch(policy.filter_globs, probe)

Excluded == SetMatch(policy.exclude_globs, probe)

Overridden == SetMatch(policy.include_globs, probe)

\* C1: should_include(p) = (filter is empty or p matches a filter pattern)
\* and (p matches no exclude pattern or p matches an include pattern); so an
\* empty filter gives TRUE for a path not excluded and the include result for
\* an excluded one, and a non-empty filter that p does not match gives FALSE.
C1_ShouldIncludeFormula ==
    pc = "filter_done" =>
        /\ verdict = (PassesFilter /\ (~Excluded \/ Overridden))
        /\ (Len(policy.filter_globs) = 0 /\ ~Excluded => verdict = TRUE)
        /\ (Len(policy.filter_globs) = 0 /\ Excluded => verdict = Overridden)
        /\ (Len(policy.filter_globs) > 0 /\ ~SetMatch(policy.filter_globs, probe)
                => verdict = FALSE)

\* A non-empty filter rejects a path that is excluded and named by include.
C1_Witness ==
    /\ pc = "filter_done"
    /\ Len(policy.filter_globs) > 0 /\ ~SetMatch(policy.filter_globs, probe)
    /\ Excluded /\ Overridden
    /\ verdict = FALSE

IsPolicy(f, e, n) ==
    /\ policy.filter_globs = f
    /\ policy.exclude_globs = e
    /\ policy.include_globs = n

\* C2 as stated: filter {*.rs}, exclude {target/*}, include
\* {target/important.rs} gives FALSE for target/important.rs, and the same
\* with an empty filter gives TRUE.
C2_AsStated ==
    pc = "filter_done" /\ probe = P_important =>
        /\ (IsPolicy(<<G_rs>>, <<G_target>>, <<G_important>>) => verdict = FALSE)
        /\ (IsPolicy(<<>>, <<G_target>>, <<G_important>>) => verdict = TRUE)

\* C2 as amended: "*.rs" matches target/important.rs, so the filter stage
\* accepts it and the include set overrides the exclusion: the result is TRUE
\* with filter {*.rs} as with an empty filter. The filter stage rejects the
\* path (FALSE) only under a filter it does not match, such as {*.toml}.
C2_IncludeOverridesWithinFilter ==
    pc = "filter_done" /\ probe = P_important =>
        /\ (IsPolicy(<<G_rs>>, <<G_target>>, <<G_important>>) => verdict = TRUE)
        /\ (IsPolicy(<<>>, <<G_target>>, <<G_important>>) => verdict = TRUE)
        /\ (IsPolicy(<<G_toml>>, <<G_target>>, <<G_important>>) => verdict = FALSE)

C2_Witness ==
    /\ pc = "filter_done" /\ probe = P_important
    /\ IsPolicy(<<G_rs>>, <<G_target>>, <<G_important>>)
    /\ verdict = TRUE

\* ======================================================== the rendered text
\* A text is a sequence of pieces: single characters, and the fixed pieces
\* below, each standing for the literal the code pushes. The box-drawing
\* glyphs are written in ASCII here: "+-- " for U+2514 U+2500 U+2500 space,
\* "|-- " for U+251C U+2500 U+2500 space, "|   " for U+2502 and three spaces.

NL == "\n"

HEADER == "Directory Structure:"

CONN_LAST == "+-- "

CONN_MID == "|-- "

PFX_BLANK == "    "

PFX_BAR == "|   "

BANNER == "================================================"

FILE_LABEL == "FILE: "

PLACEHOLDER == "[Binary file or read error]"

PROMPT_LABEL == "Prompt: "

P_repo == <<"r","e","p","o">>

P_dot == <<".">>

P_rootFallback == <<"r","o","o","t">>

\* Path::file_name: the last component, none for a path ending in "." or "..".
HasFileName(path) ==
    /\ path # <<>>
    /\ Last(Split(path)) \notin {<<>>, <<".">>, <<".",".">>}

\* ------------------------------------------------ BTreeSet<String>, BTreeMap

\* A BTreeSet<String> is kept as the sequence its iteration yields: ascending
\* in String order, without duplicates.
RECURSIVE InsertSortedAt(_, _, _)
InsertSortedAt(set, x, i) ==
    IF i > Len(set) THEN Append(set, x)
    ELSE IF set[i] = x THEN set
    ELSE IF StrLess(x, set[i])
         THEN SubSeq(set, 1, i - 1) \o <<x>> \o SubSeq(set, i, Len(set))
    ELSE InsertSortedAt(set, x, i + 1)

\* A planted fault: the children are kept in insertion order (a Vec with a
\* containment check in place of the ordered set).
BTreeSetInsert_Unordered(set, x) ==
    IF \E i \in 1..Len(set) : set[i] = x THEN set ELSE Append(set, x)

\* BTreeSet::insert
BTreeSetInsert(set, x) == InsertSortedAt(set, x, 1)

\* A planted fault: every child is pushed, also one the parent already has.
MapInsert_NoDedup(map, key, child) ==
    IF key \in DOMAIN map
    THEN [map EXCEPT ![key] = Append(@, child)]
    ELSE [k \in (DOMAIN map) \cup {key} |->
             IF k = key THEN <<child>> ELSE map[k]]

\* directory_children.entry(key).or_insert_with(BTreeSet::new).insert(child)
MapInsert(map, key, child) ==
    IF key \in DOMAIN map
    THEN [map EXCEPT ![key] = BTreeSetInsert(@, child)]
    ELSE [k \in (DOMAIN map) \cup {key} |->
             IF k = key THEN BTreeSetInsert(<<>>, child) ELSE map[k]]

EmptyMap == [k \in {} |-> <<>>]

\* ------------------------------------------------- generate_directory_tree

\* The loop over the parts of one file (main.rs 259-277); st holds
\* directory_children (dc) and all_paths (ap).
RECURSIVE AddParts(_, _, _, _)
AddParts(st, parts, i, current_path) ==
    IF i > Len(parts) THEN st
    ELSE LET parent_path == current_path
             next_path == (IF i > 1 THEN Append(current_path, "/") ELSE current_path)
                              \o parts[i]
             ap1 == IF i < Len(parts) THEN BTreeSetInsert(st.ap, next_path) ELSE st.ap
             dc1 == MapInsert(st.dc, parent_path, next_path)
         IN  AddParts([dc |-> dc1, ap |-> ap1], parts, i + 1, next_path)

\* The body of the loop over the files (main.rs 251-278).
AddFile(st, file) ==
    LET file_path_str == ReplaceBackslash(file)
        st1 == [st EXCEPT !.ap = BTreeSetInsert(@, file_path_str)]
    IN  AddParts(st1, Split(file_path_str), 1, <<>>)

RECURSIVE BuildTree(_, _, _)
BuildTree(files, k, st) ==
    IF k > Len(files) THEN st
    ELSE BuildTree(files, k + 1, AddFile(st, files[k]))

\* print_tree_recursive: the lines of the children of current_dir
RECURSIVE PrintChildren(_, _, _, _)
RECURSIVE print_tree_recursive(_, _, _)
\* A planted fault: the prefix handed to a child's own children is always the
\* blank unit, also under a child that is not the last.
RECURSIVE PrintChildren_BlankPrefix(_, _, _, _)
PrintChildren_BlankPrefix(dc, children_vec, i, prefix) ==
    IF i > Len(children_vec) THEN <<>>
    ELSE LET child == children_vec[i]
             is_last_child == i = Len(children_vec)
         IN  IF child = <<>>
             THEN PrintChildren_BlankPrefix(dc, children_vec, i + 1, prefix)
             ELSE LET child_name == Last(Split(child))
                      is_directory == child \in DOMAIN dc
                      connector == IF is_last_child THEN CONN_LAST ELSE CONN_MID
                      child_suffix == IF is_directory THEN <<"/">> ELSE <<>>
                      child_prefix == Append(prefix, PFX_BLANK)
                  IN  prefix \o <<connector>> \o child_name \o child_suffix \o <<NL>>
                        \o print_tree_recursive(dc, child, child_prefix)
                        \o PrintChildren_BlankPrefix(dc, children_vec, i + 1, prefix)

PrintChildren(dc, children_vec, i, prefix) ==
    IF i > Len(children_vec) THEN <<>>
    ELSE LET child == children_vec[i]
             is_last_child == i = Len(children_vec)
         IN  IF child = <<>>
             THEN PrintChildren(dc, children_vec, i + 1, prefix)
             ELSE LET child_name == Last(Split(child))
                      is_directory == child \in DOMAIN dc
                      connector == IF is_last_child THEN CONN_LAST ELSE CONN_MID
                      child_suffix == IF is_directory THEN <<"/">> ELSE <<>>
                      child_prefix == Append(prefix,
                                         IF is_last_child THEN PFX_BLANK ELSE PFX_BAR)
                  IN  prefix \o <<connector>> \o child_name \o child_suffix \o <<NL>>
                        \o print_tree_recursive(dc, child, child_prefix)
                        \o PrintChildren(dc, children_vec, i + 1, prefix)

print_tree_recursive(dc, current_dir, prefix) ==
    IF current_dir \in DOMAIN dc
    THEN PrintChildren(dc, dc[current_dir], 1, prefix)
    ELSE <<>>

\* generate_directory_tree
generate_directory_tree(root_path, files) ==
    LET root_name == IF HasFileName(root_path) THEN Last(Split(root_path))
                     ELSE P_rootFallback
        head == <<HEADER, NL>> \o root_name \o <<"/", NL>>
    IN  IF files = <<>> THEN head
        ELSE head \o print_tree_recursive(
                         BuildTree(files, 1, [dc |-> EmptyMap, ap |-> <<>>]).dc,
                         <<>>, <<>>)

\* ============================================ generate_directory_tree alone
\* The renderer applied to every list of up to MaxTreeFiles paths, in every
\* order, duplicates and empty segments included.

T_b == <<"b">>

T_ab == <<"a","/","b">>

T_ac == <<"a","/","c">>

T_a_bx == <<"a","-","b","/","x">>

T_axf == <<"a","/","x","/","f">>

T_cxf == <<"c","/","x","/","f">>

T_lead == <<"/","a">>

T_double == <<"a","/","/","b">>

T_trail == <<"a","/">>

T_back == <<"c","\\","d">>

TreePaths == {T_b, T_ab, T_ac, T_a_bx, T_axf, T_cxf, T_lead, T_double, T_trail, T_back}

TreeRoots == {P_repo, P_dot}

TreeInit ==
    /\ pc = "tree_ready"
    /\ tree_root \in TreeRoots
    /\ tree_input \in SeqsUpTo(TreePaths, MaxTreeFiles)
    /\ tree_text = <<>>
    /\ MainIdle /\ FilterIdle

RenderTree ==
    /\ pc = "tree_ready"
    /\ tree_text' = generate_directory_tree(tree_root, tree_input)
    /\ pc' = "tree_done"
    /\ UNCHANGED <<tree_root, tree_input>>
    /\ UNCHANGED mainVars /\ UNCHANGED filterVars

TreeNext == RenderTree

SpecTree == TreeInit /\ [][TreeNext]_vars

\* ---- reading a rendered text back

\* The lines of a text: the pieces before each NL.
RECURSIVE LinesFrom(_, _, _)
LinesFrom(text, i, cur) ==
    IF i > Len(text) THEN (IF cur = <<>> THEN <<>> ELSE <<cur>>)
    ELSE IF text[i] = NL THEN <<cur>> \o LinesFrom(text, i + 1, <<>>)
    ELSE LinesFrom(text, i + 1, Append(cur, text[i]))

LinesOf(text) == LinesFrom(text, 1, <<>>)

\* The node lines: those below the header and the root line.
NodeLines(text) == LET ls == LinesOf(text) IN SubSeq(ls, 3, Len(ls))

RECURSIVE DepthFrom(_, _)
DepthFrom(line, i) ==
    IF i <= Len(line) /\ line[i] \in {PFX_BLANK, PFX_BAR}
    THEN 1 + DepthFrom(line, i + 1)
    ELSE 0

\* The number of indentation units before the connector.
DepthOf(line) == DepthFrom(line, 1)

ConnectorOf(line) == line[DepthOf(line) + 1]

IsDirLine(line) == Last(line) = "/"

\* The displayed name: what follows the connector, without a directory's "/".
NameOf(line) ==
    SubSeq(line, DepthOf(line) + 2,
           IF IsDirLine(line) THEN Len(line) - 1 ELSE Len(line))

\* The line of the directory a node line hangs under: the nearest line above
\* it that is one unit less indented.
ParentLine(lines, i) ==
    CHOOSE j \in 1..(i - 1) :
        /\ DepthOf(lines[j]) = DepthOf(lines[i]) - 1
        /\ \A k \in (j + 1)..(i - 1) : DepthOf(lines[k]) # DepthOf(lines[i]) - 1

\* The path a node line stands for: the names from the top level down.
RECURSIVE LinePath(_, _)
LinePath(lines, i) ==
    IF DepthOf(lines[i]) = 0 THEN NameOf(lines[i])
    ELSE LinePath(lines, ParentLine(lines, i)) \o <<"/">> \o NameOf(lines[i])

\* The paths of the directory lines, one entry per line.
DirLinePaths(text) ==
    LET ls == NodeLines(text)
        RECURSIVE Collect(_)
        Collect(i) ==
            IF i > Len(ls) THEN <<>>
            ELSE (IF IsDirLine(ls[i]) THEN <<LinePath(ls, i)>> ELSE <<>>)
                     \o Collect(i + 1)
    IN  Collect(1)

Range(seq) == {seq[i] : i \in 1..Len(seq)}

NoDuplicates(seq) == \A i, j \in 1..Len(seq) : seq[i] = seq[j] => i = j

\* The non-empty proper prefixes of a path that end just before a separator.
DirPrefixes(path) ==
    {SubSeq(path, 1, k - 1) : k \in {m \in 2..Len(path) : path[m] = "/"}}

ImpliedDirs(files) ==
    UNION {DirPrefixes(ReplaceBackslash(files[i])) : i \in 1..Len(files)}

Perms(seq) ==
    {[i \in 1..Len(seq) |-> seq[f[i]]] :
        f \in {g \in [1..Len(seq) -> 1..Len(seq)] :
                  \A a, b \in 1..Len(seq) : g[a] = g[b] => a = b}}

\* The arrangement of a list in ascending String order.
Canonical(seq) ==
    CHOOSE p \in Perms(seq) :
        \A i \in 1..(Len(p) - 1) : ~StrLess(p[i + 1], p[i])

\* C8: the rendered text does not depend on the order of the input list:
\* every list renders to the text of its ascending arrangement, so any two
\* orderings of the same paths render to the same text.
C8_OrderIndependent ==
    pc = "tree_done" =>
        tree_text = generate_directory_tree(tree_root, Canonical(tree_input))

\* Three files given in descending order, two of them under one directory.
C8_Witness ==
    /\ pc = "tree_done"
    /\ tree_input = <<T_b, T_ac, T_ab>>
    /\ Canonical(tree_input) = <<T_ab, T_ac, T_b>>

\* C9: the directory lines below the root line are, one line each, exactly
\* the non-empty proper prefixes (up to a separator) of the input paths.
C9_DirectoriesAreThePrefixes ==
    pc = "tree_done" =>
        /\ NoDuplicates(DirLinePaths(tree_text))
        /\ Range(DirLinePaths(tree_text)) = ImpliedDirs(tree_input)

\* Two files share the directory a, a third lies two directories deep.
C9_Witness ==
    /\ pc = "tree_done"
    /\ tree_input = <<T_ab, T_axf, T_ac>>
    /\ DirLinePaths(tree_text) = << <<"a">>, <<"a","/","x">> >>

\* ---- empty path segments

\* A path with an empty segment: a leading or trailing separator or a doubled
\* one.
HasEmptySegment(path) ==
    \E k \in 1..Len(Split(ReplaceBackslash(path))) :
        Split(ReplaceBackslash(path))[k] = <<>>

\* A node line that shows no name: prefix and connector, and at most a "/".
EmptyNameLine(line) == NameOf(line) = <<>>

\* C11, as stated: whatever empty segments the input paths have, no rendered
\* line has an empty displayed name. The renderer does not keep to it.
C11_AsStated ==
    pc = "tree_done" =>
        \A i \in 1..Len(NodeLines(tree_text)) :
            ~EmptyNameLine(NodeLines(tree_text)[i])

\* The three shapes rendered alone: a leading separator is skipped (the only
\* line is the file a), a doubled separator gives a directory line that is
\* only "/", a trailing one a file line with no name.
C11_LeadingSkipped ==
    generate_directory_tree(P_repo, <<T_lead>>)
        = <<HEADER, NL>> \o P_repo \o <<"/", NL, CONN_LAST, "a", NL>>

C11_DoubledRendered ==
    generate_directory_tree(P_repo, <<T_double>>)
        = <<HEADER, NL>> \o P_repo
            \o <<"/", NL, CONN_LAST, "a", "/", NL,
                 PFX_BLANK, CONN_LAST, "/", NL,
                 PFX_BLANK, PFX_BLANK, CONN_LAST, "b", NL>>

C11_TrailingRendered ==
    generate_directory_tree(P_repo, <<T_trail>>)
        = <<HEADER, NL>> \o P_repo
            \o <<"/", NL, CONN_LAST, "a", "/", NL, PFX_BLANK, CONN_LAST, NL>>

\* The path a//b has been rendered, and the text has a line without a name.
C11_Witness ==
    /\ pc = "tree_done"
    /\ tree_root = P_repo
    /\ tree_input = <<T_double>>
    /\ HasEmptySegment(T_double)
    /\ \E i \in 1..Len(NodeLines(tree_text)) : EmptyNameLine(NodeLines(tree_text)[i])
    /\ C11_LeadingSkipped /\ C11_DoubledRendered /\ C11_TrailingRendered

\* ============================================================ collect_files

\* Path::components of a relative path: its non-empty segments.
Components(path) == SelectSeq(Split(path), LAMBDA seg : seg # <<>>)

\* Ord for Path: the components compared in turn, each as a byte string, a
\* path that is a proper prefix (by components) of the other first.
RECURSIVE CompCmpFrom(_, _, _)
CompCmpFrom(a, b, i) ==
    IF i > Len(a) /\ i > Len(b) THEN 0
    ELSE IF i > Len(a) THEN 0 - 1
    ELSE IF i > Len(b) THEN 1
    ELSE IF StrCmp(a[i], b[i]) # 0 THEN StrCmp(a[i], b[i])
    ELSE CompCmpFrom(a, b, i + 1)

\* A planted fault: paths compared as whole strings.
PathCmp_ByString(a, b) == StrCmp(a, b)

PathCmp(a, b) == CompCmpFrom(Components(a), Components(b), 1)

PathLess(a, b) == PathCmp(a, b) < 0

RECURSIVE InsertByPath(_, _, _)
InsertByPath(sorted, x, i) ==
    IF i > Len(sorted) THEN Append(sorted, x)
    ELSE IF PathLess(x, sorted[i])
         THEN SubSeq(sorted, 1, i - 1) \o <<x>> \o SubSeq(sorted, i, Len(sorted))
    ELSE InsertByPath(sorted, x, i + 1)

\* files.sort(): the stable ascending sort of a Vec<PathBuf>.
RECURSIVE SortFrom(_, _, _)
SortFrom(files, k, sorted) ==
    IF k > Len(files) THEN sorted
    ELSE SortFrom(files, k + 1, InsertByPath(sorted, files[k], 1))

SortPaths(files) == SortFrom(files, 1, <<>>)

\* The rules of a .gitignore at the root, as the tests write it: "temp" and
\* "*.log". A rule without separator applies to a name at any depth.
IgnoreRules == <<G_temp, G_log>>

Gitignored(path) ==
    /\ P_gitignore \in fs.files
    /\ \E r \in 1..Len(IgnoreRules), seg \in Range(Split(path)) :
           GlobMatch(IgnoreRules[r], seg)

\* The regular files the walker yields: hidden ones included, ignored ones
\* left out unless ignore-file processing is switched off.
WalkEntries(ignore_gitignore) ==
    IF ignore_gitignore THEN fs.files
    ELSE {f \in fs.files : ~Gitignored(f)}

\* All orders in which the walker may yield a set of entries.
Orders(S) ==
    {o \in [1..Cardinality(S) -> S] :
        \A a, b \in 1..Cardinality(S) : o[a] = o[b] => a = b}

\* collect_files, given the entries in the order the walker yields them (as
\* paths relative to the root).
collect_files(entries, filter) ==
    SortPaths(SelectSeq(entries, LAMBDA relative_path :
                                     should_include(filter, relative_path)))

\* ================================================== generate_file_contents

\* What fs::read_to_string returns for a file that reads as text.
FileText(path) ==
    IF path = P_srcrs THEN <<"s","r","c">>
    ELSE IF path = P_gitignore THEN <<"t","e","m","p",NL,"*",".","l","o","g">>
    ELSE IF path = P_temp THEN <<>>
    ELSE <<"x", NL>>

EndsWithNewline(text) == text # <<>> /\ Last(text) = NL

\* The loop of generate_file_contents from file i on; failed holds the
\* files whose read fails (binary content, permissions, a race).
RECURSIVE ContentsFrom(_, _, _)
ContentsFrom(files, failed, i) ==
    IF i > Len(files) THEN <<>>
    ELSE LET file_path == files[i]
             body == IF file_path \in failed THEN <<PLACEHOLDER, NL>>
                     ELSE FileText(file_path)
                          \o (IF EndsWithNewline(FileText(file_path))
                              THEN <<>> ELSE <<NL>>)
         IN  (IF i > 1 THEN <<NL>> ELSE <<>>)
                 \o <<BANNER, NL, FILE_LABEL>> \o file_path \o <<NL, BANNER, NL>>
                 \o body \o ContentsFrom(files, failed, i + 1)

\* A planted fault: a file that cannot be read ends the rendering with an
\* error (the read's error is passed on).
generate_file_contents_FailFast(files, failed) ==
    IF \E i \in 1..Len(files) : files[i] \in failed
    THEN [ok |-> FALSE, text |-> <<>>]
    ELSE [ok |-> TRUE, text |-> ContentsFrom(files, failed, 1)]

\* generate_file_contents: a Result<String>, Ok on every path
generate_file_contents(files, failed) ==
    [ok |-> TRUE, text |-> ContentsFrom(files, failed, 1)]

\* ===================================================================== main

Some(v) == [some |-> TRUE, v |-> v]

None == [some |-> FALSE, v |-> <<>>]

P_prompt == <<"h","i">>

FilterArgs == {<<>>, <<G_rs>>, <<G_unclosed>>}

ExcludeArgs == {<<>>, <<G_src>>, <<G_unclosed>>}

IncludeArgs == {<<>>, <<G_main, G_gitConfig>>, <<G_unclosed>>}

\* struct Cli (the output path and the quiet flag, which only steer where
\* the text goes and the summary on stdout, are left out).
CliArgs ==
    [path : {None, Some(P_repo)},
     tree_only : BOOLEAN,
     contents_only : BOOLEAN,
     ignore_gitignore : BOOLEAN,
     filter : FilterArgs,
     exclude : ExcludeArgs,
     include : IncludeArgs,
     prune_tree : BOOLEAN,
     prompt : {None, Some(P_prompt)}]

FsUniverse == {P_srcrs, P_main, P_gitConfig, P_dotgit, P_gitignore, P_temp}

\* No regular file lies below another regular file.
ValidFs(files) ==
    \A f, g \in files : f \notin DirPrefixes(g)

FsChoices ==
    {[files |-> S] : S \in {X \in SUBSET FsUniverse :
                               Cardinality(X) <= MaxFiles /\ ValidFs(X)}}

Init ==
    /\ pc = "start"
    /\ cli \in CliArgs
    /\ fs \in FsChoices
    /\ target_dir = <<>>
    /\ content_files = <<>>
    /\ tree_files = <<>>
    /\ output_content = <<>>
    /\ outfile = NoOutfile
    /\ err = NoError
    /\ fsLog = <<>>
    /\ readFailed = {}
    /\ FilterIdle /\ TreeIdle

Fail(kind, detail) ==
    /\ pc' = "failed"
    /\ err' = [kind |-> kind, detail |-> detail]

\* A planted fault: only the directory itself is excluded, not what is in it.
exclude_git_DirOnly == <<G_git>>

\* main: let exclude_git
exclude_git == <<G_git, G_gitAll>>

\* main: let mut all_excludes
all_excludes == cli.exclude \o exclude_git

\* main: let content_filter (a Result)
content_filter == FileFilter_new(cli.filter, all_excludes, cli.include)

\* A planted fault: the tree filter is given the user's exclusions too.
tree_filter_AllExcludes == FileFilter_new(<<>>, all_excludes, cli.include)

\* A planted fault: the tree filter is built without the include patterns.
tree_filter_NoInclude == FileFilter_new(<<>>, exclude_git, <<>>)

\* main: let tree_filter (a Result)
tree_filter == FileFilter_new(<<>>, exclude_git, cli.include)

\* resolve_target_directory with an explicit path: it must exist.
ResolveExplicit ==
    /\ pc = "start"
    /\ cli.path.some
    /\ fsLog' = Append(fsLog, "exists")
    /\ \E exists \in BOOLEAN :
          IF exists
          THEN /\ target_dir' = cli.path.v
               /\ pc' = "resolved"
               /\ err' = err
          ELSE /\ Fail("DirectoryDoesNotExist", cli.path.v)
               /\ UNCHANGED target_dir
    /\ UNCHANGED <<cli, fs, content_files, tree_files, output_content, outfile,
                   readFailed>>
    /\ UNCHANGED filterVars /\ UNCHANGED treeVars

\* resolve_target_directory without a path: the current directory, then the
\* repository it lies in, then that repository's root.
ResolveDiscover ==
    /\ pc = "start"
    /\ ~cli.path.some
    /\ \E outcome \in {"no_cwd", "no_repo", "no_parent", "repo"} :
          /\ fsLog' = IF outcome = "no_cwd" THEN Append(fsLog, "current_dir")
                      ELSE fsLog \o <<"current_dir", "discover">>
          /\ CASE outcome = "no_cwd" ->
                    Fail("CurrentDirFailed", <<>>) /\ UNCHANGED target_dir
               [] outcome = "no_repo" ->
                    Fail("NotAGitRepository", <<>>) /\ UNCHANGED target_dir
               [] outcome = "no_parent" ->
                    Fail("NoRepositoryRoot", <<>>) /\ UNCHANGED target_dir
               [] outcome = "repo" ->
                    /\ target_dir' = P_repo
                    /\ pc' = "resolved"
                    /\ err' = err
    /\ UNCHANGED <<cli, fs, content_files, tree_files, output_content, outfile,
                   readFailed>>
    /\ UNCHANGED filterVars /\ UNCHANGED treeVars

\* FileFilter::new for the contents section.
BuildContentFilter ==
    /\ pc = "resolved"
    /\ IF content_filter.ok
       THEN pc' = "filtered" /\ err' = err
       ELSE Fail("InvalidGlob", content_filter.bad)
    /\ UNCHANGED <<cli, fs, target_dir, content_files, tree_files, output_content,
                   outfile, fsLog, readFailed>>
    /\ UNCHANGED filterVars /\ UNCHANGED treeVars

\* collect_files for the contents section: the walk yields its entries in
\* some order, or fails on an entry.
CollectContent ==
    /\ pc = "filtered"
    /\ fsLog' = Append(fsLog, "walk")
    /\ \/ /\ Fail("WalkFailed", <<>>)
          /\ UNCHANGED content_files
       \/ \E entries \in Orders(WalkEntries(cli.ignore_gitignore)) :
             /\ content_files' = collect_files(entries, content_filter)
             /\ pc' = "content_collected"
             /\ err' = err
    /\ UNCHANGED <<cli, fs, target_dir, tree_files, output_content, outfile,
                   readFailed>>
    /\ UNCHANGED filterVars /\ UNCHANGED treeVars

\* With prune-tree the tree section lists the contents section's files.
CollectTreePruned ==
    /\ pc = "content_collected"
    /\ cli.prune_tree
    /\ tree_files' = content_files
    /\ pc' = "collected"
    /\ UNCHANGED <<cli, fs, target_dir, content_files, output_content, outfile,
                   err, fsLog, readFailed>>
    /\ UNCHANGED filterVars /\ UNCHANGED treeVars

\* Without it, a second filter is built and a second walk made.
CollectTree ==
    /\ pc = "content_collected"
    /\ ~cli.prune_tree
    /\ IF ~tree_filter.ok
       THEN /\ Fail("InvalidGlob", tree_filter.bad)
            /\ UNCHANGED <<tree_files, fsLog>>
       ELSE /\ fsLog' = Append(fsLog, "walk")
            /\ \/ /\ Fail("WalkFailed", <<>>)
                  /\ UNCHANGED tree_files
               \/ \E entries \in Orders(WalkEntries(cli.ignore_gitignore)) :
                     /\ tree_files' = collect_files(entries, tree_filter)
                     /\ pc' = "collected"
                     /\ err' = err
    /\ UNCHANGED <<cli, fs, target_dir, content_files, output_content, outfile,
                   readFailed>>
    /\ UNCHANGED filterVars /\ UNCHANGED treeVars

\* main 440-468: the output buffer: the tree, a blank line, the contents,
\* the prompt. Any of the files may fail to read.
Generate ==
    /\ pc = "collected"
    /\ \E failed \in SUBSET Range(content_files) :
          LET tree == IF cli.contents_only THEN <<>>
                      ELSE generate_directory_tree(target_dir, tree_files) \o <<NL>>
              contents == IF cli.tree_only THEN [ok |-> TRUE, text |-> <<>>]
                          ELSE generate_file_contents(content_files, failed)
              prompt == IF cli.prompt.some
                        THEN <<NL, PROMPT_LABEL>> \o cli.prompt.v \o <<NL>>
                        ELSE <<>>
          IN  /\ cli.tree_only => failed = {}
              /\ readFailed' = failed
              /\ fsLog' = IF cli.tree_only THEN fsLog
                          ELSE fsLog \o [i \in 1..Len(content_files) |-> "read"]
              /\ IF contents.ok
                 THEN /\ output_content' = tree \o contents.text \o prompt
                      /\ pc' = "generated"
                      /\ err' = err
                 ELSE /\ Fail("ReadFailed", <<>>)
                      /\ output_content' = tree
    /\ UNCHANGED <<cli, fs, target_dir, content_files, tree_files, outfile>>
    /\ UNCHANGED filterVars /\ UNCHANGED treeVars

\* A planted fault: the write is placed before the tree pass.
WriteOutput_Early ==
    /\ pc = "content_collected"
    /\ fsLog' = Append(fsLog, "write")
    /\ outfile' = [written |-> TRUE, text |-> output_content]
    /\ pc' = "done"
    /\ UNCHANGED <<cli, fs, target_dir, content_files, tree_files, output_content,
                   err, readFailed>>
    /\ UNCHANGED filterVars /\ UNCHANGED treeVars

\* fs::write of the whole buffer.
WriteOutput ==
    /\ pc = "generated"
    /\ fsLog' = Append(fsLog, "write")
    /\ \/ /\ outfile' = [written |-> TRUE, text |-> output_content]
          /\ pc' = "done"
          /\ err' = err
       \/ /\ Fail("WriteFailed", <<>>)
          /\ UNCHANGED outfile
    /\ UNCHANGED <<cli, fs, target_dir, content_files, tree_files, output_content,
                   readFailed>>
    /\ UNCHANGED filterVars /\ UNCHANGED treeVars

Next ==
    \/ ResolveExplicit
    \/ ResolveDiscover
    \/ BuildContentFilter
    \/ CollectContent
    \/ CollectTreePruned
    \/ CollectTree
    \/ Generate
    \/ WriteOutput

Spec == Init /\ [][Next]_vars

\* ---- what the claims about the pipeline speak of

ContentDone == pc \in {"content_collected", "collected", "generated", "done"}

TreeDone == pc \in {"collected", "generated", "done"}

OutputBuilt == pc \in {"generated", "done"} \/ (pc = "failed" /\ err.kind = "WriteFailed")

Ascending(seq, Less(_, _)) == \A i \in 1..(Len(seq) - 1) : Less(seq[i], seq[i + 1])

\* The order of whole path strings in which the separator sorts below every
\* other character: at the first difference the path that ends, or else the
\* one that has the separator, or else the one with the smaller byte, is first.
RECURSIVE SepFirstLessFrom(_, _, _)
SepFirstLessFrom(a, b, i) ==
    IF i > Len(a) THEN i <= Len(b)
    ELSE IF i > Len(b) THEN FALSE
    ELSE IF a[i] = b[i] THEN SepFirstLessFrom(a, b, i + 1)
    ELSE IF a[i] = "/" THEN TRUE
    ELSE IF b[i] = "/" THEN FALSE
    ELSE Byte(a[i]) < Byte(b[i])

SepFirstLess(a, b) == SepFirstLessFrom(a, b, 1)

\* The walked files a policy keeps.
Surviving(filter) ==
    {f \in WalkEntries(cli.ignore_gitignore) : should_include(filter, f)}

\* C3 as stated: collect_files returns the surviving paths in the order of
\* their whole strings, "/" compared as an ordinary character.
C3_AsStated ==
    /\ ContentDone => Ascending(content_files, StrLess)
    /\ TreeDone => Ascending(tree_files, StrLess)

\* C3 as amended: collect_files returns exactly the surviving paths, each
\* once, in Path order: component by component, which is the order of the
\* whole strings with the separator sorting below every other character
\* (src/main.rs comes before src.rs, a/b before a-b/x).
C3_SortedByComponents ==
    /\ ContentDone =>
          /\ Ascending(content_files, SepFirstLess)
          /\ Range(content_files) = Surviving(content_filter)
    /\ TreeDone =>
          /\ Ascending(tree_files, SepFirstLess)
          /\ Range(tree_files) =
                Surviving(IF cli.prune_tree THEN content_filter ELSE tree_filter)

\* A directory and a file whose name extends the directory's by ".rs".
C3_Witness ==
    /\ ContentDone
    /\ content_files = <<P_main, P_srcrs>>
    /\ StrLess(P_srcrs, P_main)
    /\ SortPaths(<<T_a_bx, T_ab>>) = <<T_ab, T_a_bx>>
    /\ StrLess(T_a_bx, T_ab)

\* At or under the .git of the root.
UnderDotGit(path) ==
    \/ path = <<".","g","i","t">>
    \/ Len(path) > 5 /\ SubSeq(path, 1, 5) = <<".","g","i","t","/">>

UserExcludedOnly(f) ==
    /\ SetMatch(cli.exclude, f)
    /\ ~SetMatch(cli.include, f)
    /\ ~UnderDotGit(f)

\* C4 as stated: without prune-tree the tree policy is the contents policy
\* less its filter set, so a file matched by a user exclude pattern and no
\* include pattern is not in the tree list.
C4_AsStated ==
    TreeDone /\ ~cli.prune_tree =>
        /\ Range(tree_files) =
              {f \in WalkEntries(cli.ignore_gitignore) :
                  ~SetMatch(cli.exclude \o <<G_git, G_gitAll>>, f)
                      \/ SetMatch(cli.include, f)}
        /\ \A f \in fs.files :
              SetMatch(cli.exclude, f) /\ ~SetMatch(cli.include, f)
                  => f \notin Range(tree_files)

\* C4 as amended: without prune-tree the tree policy has no filter set, the
\* standing .git exclusion as its only exclude patterns (the user's exclude
\* patterns are not applied) and the user's include set; so a walked file
\* matched by a user exclude pattern and no include pattern is in the tree
\* list unless it lies at or under .git.
C4_TreeIgnoresUserExcludes ==
    TreeDone /\ ~cli.prune_tree =>
        /\ Range(tree_files) =
              {f \in WalkEntries(cli.ignore_gitignore) :
                  ~UnderDotGit(f) \/ SetMatch(cli.include, f)}
        /\ \A f \in WalkEntries(cli.ignore_gitignore) :
              UserExcludedOnly(f) => f \in Range(tree_files)

\* src/main.rs is excluded by the user, left out of the contents and listed
\* in the tree.
C4_Witness ==
    /\ TreeDone /\ ~cli.prune_tree
    /\ cli.exclude = <<G_src>> /\ cli.include = <<>>
    /\ P_main \in Range(tree_files)
    /\ P_main \notin Range(content_files)

InvalidArg(args) == \E i \in 1..Len(args) : args[i] = <<"[">>

HasInvalidPattern == InvalidArg(cli.filter) \/ InvalidArg(cli.exclude) \/ InvalidArg(cli.include)

ResolutionAccesses == {<<"exists">>, <<"current_dir">>, <<"current_dir", "discover">>}

\* C5 as stated: a run with an invalid pattern returns the invalid-pattern
\* error before any file system access.
C5_AsStated ==
    HasInvalidPattern /\ err.kind = "InvalidGlob" => fsLog = <<>>

\* C5 as amended: a run with an invalid pattern aborts with an error before
\* any directory walk, file read or output write; the target is resolved
\* first (the existence check of the path, or the current directory and the
\* repository discovery), and when that fails its error is the one returned.
C5_AbortsBeforeWalk ==
    HasInvalidPattern =>
        /\ pc \in {"start", "resolved", "failed"}
        /\ fsLog \in {<<>>} \cup ResolutionAccesses
        /\ ~outfile.written
        /\ pc = "failed" =>
              err.kind \in {"InvalidGlob", "DirectoryDoesNotExist", "CurrentDirFailed",
                            "NotAGitRepository", "NoRepositoryRoot"}
        /\ err.kind = "InvalidGlob" =>
              /\ err.detail = <<"[">>
              /\ fsLog \in {<<"exists">>, <<"current_dir", "discover">>}

C5_Witness ==
    /\ InvalidArg(cli.include) /\ ~InvalidArg(cli.filter) /\ ~InvalidArg(cli.exclude)
    /\ pc = "failed" /\ err.kind = "InvalidGlob"
    /\ fsLog = <<"exists">>

Count(seq, x) == Cardinality({i \in 1..Len(seq) : seq[i] = x})

\* C6: no run that fails in target resolution, policy construction or a
\* collection pass writes the output file; the file is written once, as the
\* last access, after every collection pass and with the whole buffer.
C6_NoPartialOutput ==
    /\ pc = "failed" => ~outfile.written
    /\ pc = "failed" /\ err.kind # "WriteFailed" => Count(fsLog, "write") = 0
    /\ Count(fsLog, "write") > 0 =>
          /\ Count(fsLog, "write") = 1
          /\ Last(fsLog) = "write"
          /\ Count(fsLog, "walk") = (IF cli.prune_tree THEN 1 ELSE 2)
          /\ OutputBuilt
    /\ outfile.written =>
          /\ pc = "done" /\ err = NoError
          /\ outfile.text = output_content
          /\ ~cli.contents_only => outfile.text[1] = HEADER
          /\ ~cli.tree_only /\ content_files # <<>> =>
                Count(outfile.text, FILE_LABEL) = Len(content_files)

\* The tree pass fails after the contents pass succeeded: nothing is written.
C6_Witness ==
    /\ pc = "failed" /\ err.kind = "WalkFailed"
    /\ Count(fsLog, "walk") = 2
    /\ content_files # <<>>
    /\ ~outfile.written

\* The places of the FILE: labels in a text, in order.
LabelPlaces(text) ==
    SelectSeq([i \in 1..Len(text) |-> i], LAMBDA i : text[i] = FILE_LABEL)

\* The block whose label is at place p is the block of file f: the banner,
\* the label and the path, the banner, then the placeholder line if f could
\* not be read and else the text of f.
BlockAt(text, p, f, unreadable) ==
    LET b == p + Len(f) + 4
    IN  /\ p > 2 /\ text[p - 2] = BANNER /\ text[p - 1] = NL
        /\ Len(text) >= b
        /\ SubSeq(text, p + 1, p + Len(f)) = f
        /\ SubSeq(text, p + Len(f) + 1, p + Len(f) + 3) = <<NL, BANNER, NL>>
        /\ IF unreadable
           THEN SubSeq(text, b, b + 1) = <<PLACEHOLDER, NL>>
           ELSE /\ text[b] # PLACEHOLDER
                /\ SubSeq(text, b, b + Len(FileText(f)) - 1) = FileText(f)

\* C7: generate_file_contents does not fail on a file that cannot be read:
\* the text has one block per file, in the order of the list, an unreadable
\* file's block holding the placeholder line, the files after it still there.
C7_PlaceholderNotFailure ==
    /\ err.kind # "ReadFailed"
    /\ OutputBuilt /\ ~cli.tree_only =>
          LET places == LabelPlaces(output_content)
          IN  /\ Len(places) = Len(content_files)
              /\ \A k \in 1..Len(places) :
                    BlockAt(output_content, places[k], content_files[k],
                            content_files[k] \in readFailed)
              /\ Count(output_content, PLACEHOLDER) = Cardinality(readFailed)

\* The first of two files cannot be read, the second can.
C7_Witness ==
    /\ pc = "done" /\ ~cli.tree_only
    /\ Len(content_files) = 2
    /\ readFailed = {content_files[1]}
    /\ Count(outfile.text, FILE_LABEL) = 2

\* C10: with ".git" and ".git/**" in the exclude set no path at or under the
\* root's .git is returned unless an include pattern matches it, whether the
\* ignore files are respected or not; one that an include pattern matches
\* (and the filter stage passes) is returned.
C10_DotGitExcluded ==
    /\ ContentDone =>
          /\ \A f \in Range(content_files) : UnderDotGit(f) => SetMatch(cli.include, f)
          /\ \A f \in WalkEntries(cli.ignore_gitignore) :
                /\ UnderDotGit(f) /\ SetMatch(cli.include, f)
                /\ Len(cli.filter) = 0 \/ SetMatch(cli.filter, f)
                => f \in Range(content_files)
    /\ TreeDone =>
          /\ \A f \in Range(tree_files) : UnderDotGit(f) => SetMatch(cli.include, f)
          /\ ~cli.prune_tree =>
                \A f \in WalkEntries(cli.ignore_gitignore) :
                    UnderDotGit(f) /\ SetMatch(cli.include, f)
                        => f \in Range(tree_files)

\* .git/config is on disk beside src.rs, no include pattern is given, and
\* only src.rs is returned, for the contents and for the tree. (The patterns
\* are anchored at the root: they let the config of a nested sub/.git pass.)
C10_Witness ==
    /\ TreeDone /\ ~cli.prune_tree /\ cli.ignore_gitignore
    /\ fs.files = {P_gitConfig, P_srcrs}
    /\ cli.include = <<>> /\ cli.filter = <<>>
    /\ content_files = <<P_srcrs>>
    /\ tree_files = <<P_srcrs>>
    /\ should_include(tree_filter, P_subGit)

\* ================================================== connectors and prefixes

\* The nodes of the tree a list of paths stands for: every path and every
\* directory above it.
Nodes(files) ==
    UNION {DirPrefixes(ReplaceBackslash(files[i])) \cup {ReplaceBackslash(files[i])} :
              i \in 1..Len(files)}

\* The directory a node lies in; the empty path for a top-level node.
ParentOf(node) ==
    IF \E k \in 1..Len(node) : node[k] = "/"
    THEN SubSeq(node, 1,
                (CHOOSE k \in 1..Len(node) :
                    /\ node[k] = "/"
                    /\ \A m \in (k + 1)..Len(node) : node[m] # "/") - 1)
    ELSE <<>>

\* A node is the last of its parent's children in sorted order: no sibling
\* has a greater name.
IsLastInOrder(node, files) ==
    \A m \in Nodes(files) :
        ParentOf(m) = ParentOf(node)
            => ~StrLess(Last(Split(node)), Last(Split(m)))

\* The ancestor of a node that is k directories down from the top.
AncestorAt(node, k) ==
    CHOOSE d \in DirPrefixes(node) : Len(Split(d)) = k

\* The path of every node line, in the order of the lines.
LinePaths(text) ==
    [i \in 1..Len(NodeLines(text)) |-> LinePath(NodeLines(text), i)]

\* C12: for a list of paths without empty segments, the node lines are the
\* nodes of the tree, each once, every directory followed by what lies under
\* it; the connector of a line is the closing one exactly when its node is the
\* last of its parent's children in sorted order and the continuing one
\* otherwise; and its prefix has one unit per proper ancestor, from the top
\* down, the bar unit for an ancestor that is not the last child of its own
\* parent and the blank unit for one that is.
C12_ConnectorsAndPrefixes ==
    (pc = "tree_done" /\ \A f \in Range(tree_input) : ~HasEmptySegment(f)) =>
        LET ls == NodeLines(tree_text)
            ps == LinePaths(tree_text)
        IN  /\ Range(ps) = Nodes(tree_input)
            /\ Ascending(ps, SepFirstLess)
            /\ \A i \in 1..Len(ls) :
                  /\ ConnectorOf(ls[i]) =
                        (IF IsLastInOrder(ps[i], tree_input)
                         THEN CONN_LAST ELSE CONN_MID)
                  /\ DepthOf(ls[i]) = Len(Split(ps[i])) - 1
                  /\ \A k \in 1..DepthOf(ls[i]) :
                        ls[i][k] =
                            (IF IsLastInOrder(AncestorAt(ps[i], k), tree_input)
                             THEN PFX_BLANK ELSE PFX_BAR)

\* The file a/x/f lies under a, which is not the last top-level node, and
\* under a/x, which is the last child of a: its line has the bar unit, the
\* blank unit and the closing connector.
C12_Witness ==
    /\ pc = "tree_done"
    /\ tree_input = <<T_b, T_axf, T_ab>>
    /\ NodeLines(tree_text) =
          << <<CONN_MID, "a", "/">>,
             <<PFX_BAR, CONN_MID, "b">>,
             <<PFX_BAR, CONN_LAST, "x", "/">>,
             <<PFX_BAR, PFX_BLANK, CONN_LAST, "f">>,
             <<CONN_LAST, "b">> >>

\* ================================================ the two lists of one run

\* C13: in every run that has made both collections (the file system being
\* the same for both), every file of the contents list is in the tree list,
\* and with prune-tree the two lists are the same.
C13_ContentWithinTree ==
    TreeDone =>
        /\ Range(content_files) \subseteq Range(tree_files)
        /\ cli.prune_tree => tree_files = content_files

\* Without prune-tree, under the filter *.rs and an include pattern naming
\* .git/config: the contents list has src.rs alone, the tree list has
\* .git/config as well.
C13_Witness ==
    /\ TreeDone /\ ~cli.prune_tree
    /\ cli.filter = <<G_rs>> /\ cli.include = <<G_main, G_gitConfig>>
    /\ fs.files = {P_gitConfig, P_srcrs}
    /\ content_files = <<P_srcrs>>
    /\ tree_files = <<P_gitConfig, P_srcrs>>

=============================================================================
